---- MODULE Spec2Model ----
(***************************************************************************)
(* Model of the leptess low level wrappers: the engine typestate of        *)
(* src/src/tesseract.rs (one foreign TessBaseAPI session and the wrapper   *)
(* values that refer to it) and the Pix / Boxes / Box handles of           *)
(* src/src/leptonica.rs (one Pix, one Boxes collection with its foreign    *)
(* reference counted boxes, the Box clones handed out and the two          *)
(* iterators).                                                             *)
(***************************************************************************)
EXTENDS Integers, Sequences, FiniteSets, TLC

(***************************************************************************)
(* Bounds of the model.                                                    *)
(***************************************************************************)
\* calls of the repeatable engine operations (set_rectangle, get_text, get_*)
MaxOps == 2
\* slots of a Boxes collection
MaxLen == 2
\* direct Boxes::get calls plus borrowing traversals on one collection
MaxGets == 2
\* next() calls answered None that one iterator is followed through
MaxNones == 2

(***************************************************************************)
(* Values of the foreign interface.                                        *)
(***************************************************************************)
\* statuses TessBaseAPIInit3 can report: success, the documented failure,
\* and one undocumented nonzero value
StatusCodes == {0, -1, 1}

\* a foreign call on the session, with the value that tells calls of one
\* kind apart (the status of Init3, the geometry of SetRectangle)
Call(op, val) == [op |-> op, val |-> val]

VARIABLES
    alive,      \* the live wrapper state values whose pointer.raw is the session
    calls,      \* the foreign calls issued on the session so far, in order
    initRet,    \* what the initialize call gave its caller: none, value, panic
                \* (no path of the code gives an error result)
    textRet,    \* what the last get_text gave its caller: none, string, panic
                \* (no path of the code gives an error result)
    thread,     \* running, unwinding (after a panic) or aborted
    pix,        \* the Pix handle: none, err, live, dropped
    boundPix,   \* the Pix whose reference set_image passed: none, live, dropped
    pixRead,    \* what pixRead handed the last Pix::from_path: none, null, ptr
    rect,       \* the Box made by Box::new: [st: none, live, dropped; raw; geom]
    lastNew,    \* the last Box::new: [args: (x, y, w, h); ret: none, box, panic]
    boxes,      \* the Boxes wrapper: [st: none, owned, moved, dropped; raw: null, ptr]
    heap,       \* the foreign Boxa: [n, box: Seq([ref, geom]), frees]
    clones,     \* clones[k]: live Box wrappers whose raw is the box of slot k
    iter,       \* the iterator: [kind: none, own, ref; index; count; nones]
    ownYield,   \* what the consuming traversal has yielded, in order
    refYield,   \* what the borrowing traversal has yielded, in order
    gets,       \* direct Boxes::get calls and borrowing traversals started
    lastGet     \* the last direct Boxes::get: [index, slot returned (0: it panicked)]

engineVars == <<alive, calls, initRet, textRet, thread, pix, boundPix, pixRead,
                rect, lastNew>>
boxVars == <<boxes, heap, clones, iter, ownYield, refYield, gets, lastGet>>
vars == <<alive, calls, initRet, textRet, thread, pix, boundPix, pixRead, rect, lastNew,
          boxes, heap, clones, iter, ownYield, refYield, gets, lastGet>>

(***************************************************************************)
(* Helpers on the call log.                                                *)
(***************************************************************************)
Idx(op) == {i \in 1..Len(calls) : calls[i].op = op}
Count(op) == Cardinality(Idx(op))
Issued(op) == Idx(op) # {}


(***************************************************************************)
(* Destructors of the two pointer types (tesseract.rs 42-57).  Each takes  *)
(* the call log and gives the log after the destructor has run.            *)
(***************************************************************************)
DropUninitializedPointer(cs) == Append(cs, Call("Delete", 0))

\* a destructor that deletes the session before ending it
DropInitializedPointer_DeleteFirst(cs) ==
    cs \o <<Call("Delete", 0), Call("End", 0)>>

DropInitializedPointer(cs) == cs \o <<Call("End", 0), Call("Delete", 0)>>

\* the destructor a state value of type t runs: the drop glue of its pointer field
DropGlue(t, cs) ==
    IF t = "Uninitialized" THEN DropUninitializedPointer(cs)
                           ELSE DropInitializedPointer(cs)

(***************************************************************************)
(* TessBaseApiUninitializedPointer::init (tesseract.rs 33-39): the match   *)
(* on the status of TessBaseAPIInit3.  0 returns, -1 panics, any other     *)
(* value reaches unreachable!(), which panics too.                         *)
(***************************************************************************)
pointer_init(status) == IF status = 0 THEN "return" ELSE "panic"

\* create_tess_base_api_initialized without mem::forget: self is dropped when
\* the function returns, and its destructor deletes the session
create_without_forget(e) ==
    [alive |-> (e.alive \ {"Uninitialized"}) \cup {"Initialized"},
     calls |-> DropUninitializedPointer(e.calls)]

\* create_tess_base_api_initialized borrowing self instead of consuming it:
\* the Uninitialized value stays with the caller
create_borrowing_self(e) ==
    [alive |-> e.alive \cup {"Initialized"},
     calls |-> e.calls]

(***************************************************************************)
(* create_tess_base_api_initialized (tesseract.rs 118-126): builds the     *)
(* Initialized value over the same raw pointer and forgets self, so the    *)
(* destructor of the Uninitialized value never runs.  e is                 *)
(* [alive, calls]; the result is the pair after the function returned.     *)
(***************************************************************************)
create_tess_base_api_initialized(e) ==
    [alive |-> (e.alive \ {"Uninitialized"}) \cup {"Initialized"},
     calls |-> e.calls]

(***************************************************************************)
(* A panic inside an initialize variant unwinds its frame, which owns      *)
(* self: the Uninitialized value is dropped by its own destructor.         *)
(***************************************************************************)
UnwindInit(e) ==
    [alive |-> e.alive \ {"Uninitialized"},
     calls |-> DropGlue("Uninitialized", e.calls)]

(***************************************************************************)
(* The four initialize variants (tesseract.rs 78-116).  argsOk is FALSE    *)
(* when building an argument panics before the foreign call (a language    *)
(* or path with an interior NUL byte, a path that is not UTF-8); init      *)
(* builds no argument.  checked says whether the variant goes through      *)
(* pointer.init, which inspects the status; init_with_datapath calls       *)
(* TessBaseAPIInit3 directly and discards what it returns.                 *)
(***************************************************************************)
InitVariant(checked, argsOk, status) ==
    LET e0 == [alive |-> alive, calls |-> calls]
        e1 == [e0 EXCEPT !.calls = Append(e0.calls, Call("Init3", status))]
        panics == \/ ~argsOk
                  \/ checked /\ pointer_init(status) = "panic"
        e2 == IF ~argsOk THEN UnwindInit(e0)
              ELSE IF panics THEN UnwindInit(e1)
              ELSE create_tess_base_api_initialized(e1)
    IN  /\ thread = "running"
        /\ "Uninitialized" \in alive
        /\ alive' = e2.alive
        /\ calls' = e2.calls
        /\ initRet' = IF panics THEN "panic" ELSE "value"
        /\ thread' = IF panics THEN "unwinding" ELSE "running"
        /\ UNCHANGED <<textRet, pix, boundPix, pixRead, rect, lastNew, boxVars>>

init == \E status \in StatusCodes :
            InitVariant(TRUE, TRUE, status)

init_with_lang == \E argsOk \in BOOLEAN, status \in StatusCodes :
            InitVariant(TRUE, argsOk, status)

init_with_datapath == \E argsOk \in BOOLEAN, status \in StatusCodes :
            InitVariant(FALSE, argsOk, status)

init_with_datapath_and_lang == \E argsOk \in BOOLEAN, status \in StatusCodes :
            InitVariant(TRUE, argsOk, status)

(***************************************************************************)
(* TessBaseApiUnitialized::new (tesseract.rs 72-76, 26-30).                *)
(***************************************************************************)
new ==
    /\ thread = "running"
    /\ calls = <<>>
    /\ alive' = alive \cup {"Uninitialized"}
    /\ calls' = <<Call("Create", 0)>>
    /\ UNCHANGED <<initRet, textRet, thread, pix, boundPix, pixRead, rect,
                   lastNew, boxVars>>


(***************************************************************************)
(* The foreign rectangle storage, as the wrapper relies on it: boxes are   *)
(* reference counted, boxaGetBox(.., L_CLONE) adds a reference to the box  *)
(* of a slot, boxDestroy removes one and frees the box when none is left,  *)
(* boxaDestroy frees the array and gives up the array's own reference to   *)
(* every box.  A box whose ref is not positive is freed memory.            *)
(***************************************************************************)
\* the geometries (x, y, w, h) the engine reports for a component
GeomSet == {<<0, 0, 1, 1>>, <<3, 4, 5, 6>>}

NoHeap == [n |-> 0, box |-> <<>>, frees |-> 0]

\* a Boxa the foreign engine has just built over the geometries gs
NewBoxa(gs) == [n |-> Len(gs),
                box |-> [k \in 1..Len(gs) |-> [ref |-> 1, geom |-> gs[k]]],
                frees |-> 0]

\* the collections get_component_images can be handed
BoxaResults == UNION {[1..n -> GeomSet] : n \in 0..MaxLen}

BoxaAlloc(h) == h.frees = 0

\* boxaGetBox(raw, i, L_CLONE): the slot handed back (0 is the null pointer)
\* and the heap after the call
boxaGetBox(h, raw, i) ==
    IF raw = "null" \/ ~BoxaAlloc(h) \/ i < 0 \/ i >= h.n
    THEN [ptr |-> 0, heap |-> h]
    ELSE [ptr |-> i + 1,
          heap |-> [h EXCEPT !.box[i + 1].ref = @ + 1]]

\* boxDestroy on the box of slot k
boxDestroy(h, k) == [h EXCEPT !.box[k].ref = @ - 1]

\* boxaDestroy(&raw)
boxaDestroy(h, raw) ==
    IF raw = "null" THEN h
    ELSE [n |-> h.n,
          box |-> [k \in 1..h.n |-> [h.box[k] EXCEPT !.ref = @ - 1]],
          frees |-> h.frees + 1]

(***************************************************************************)
(* index as i32 (leptonica.rs 187): a usize keeps its low 32 bits, read    *)
(* as a signed number.  A usize u is written [q, r] with u = q * 2^31 + r  *)
(* and 0 <= r < 2^31, so that its low 32 bits are (q % 2) * 2^31 + r: the  *)
(* sign bit is the parity of q.                                            *)
(***************************************************************************)
Usize(q, r) == [q |-> q, r |-> r]

\* no direct Boxes::get has been made on the collection
NoGet == [index |-> Usize(0, 0), slot |-> -1]

as_i32(u) ==
    IF u.q % 2 = 1 THEN (u.r - 2 ^ 30) - 2 ^ 30 ELSE u.r

\* Boxes::len (leptonica.rs 180-182) on a non-null collection
Boxes_len(h) == h.n

\* Boxes::get handing out the pointer stored in the slot without taking a
\* reference of its own
Boxes_get_no_clone(h, raw, index) ==
    LET b == boxaGetBox(h, raw, as_i32(index))
    IN  [panic |-> b.ptr = 0, slot |-> b.ptr, heap |-> h]

(***************************************************************************)
(* Boxes::get (leptonica.rs 184-193): the clone of the slot, or a panic    *)
(* when the foreign call hands back null.  Gives the slot of the Box       *)
(* returned (0 with panic), and the heap after the call.                   *)
(***************************************************************************)
Boxes_get(h, raw, index) ==
    LET b == boxaGetBox(h, raw, as_i32(index))
    IN  [panic |-> b.ptr = 0, slot |-> b.ptr, heap |-> b.heap]

\* Drop for Box (leptonica.rs 130-136)
Box_drop(h, k) == boxDestroy(h, k)

\* Drop for Boxes (leptonica.rs 170-176)
Boxes_drop(h, raw) == boxaDestroy(h, raw)

\* Box::x, y, w, h (leptonica.rs 148-163) of a Box over slot k, read together
Box_xywh(h, k) == h.box[k].geom


(***************************************************************************)
(* Pix::from_path and Drop for Pix (leptonica.rs 62-75, 118-124).  The     *)
(* path may fail to convert (a panic before the foreign call); pixRead     *)
(* hands back null or a raster.                                            *)
(***************************************************************************)
\* from_path wrapping whatever pixRead hands back
from_path_unchecked(ptr) == "live"

\* the null check of from_path (leptonica.rs 70-74): Err(()) or Ok(Pix)
from_path(ptr) == IF ptr = "null" THEN "err" ELSE "live"

Pix_from_path ==
    /\ thread = "running"
    /\ pix \in {"none", "err", "dropped"}
    /\ \E pathOk \in BOOLEAN, ptr \in {"null", "ptr"} :
        /\ pix' = IF ~pathOk THEN pix ELSE from_path(ptr)
        /\ pixRead' = IF ~pathOk THEN pixRead ELSE ptr
        /\ thread' = IF pathOk THEN "running" ELSE "unwinding"
    /\ UNCHANGED <<alive, calls, initRet, textRet, boundPix, rect, lastNew,
                   boxVars>>

Pix_drop ==
    /\ thread # "aborted"
    /\ pix = "live"
    /\ pix' = "dropped"
    /\ boundPix' = IF boundPix = "live" THEN "dropped" ELSE boundPix
    /\ UNCHANGED <<alive, calls, initRet, textRet, thread, pixRead, rect,
                   lastNew, boxVars>>

(***************************************************************************)
(* Box::new and Drop for Box on the Box it made (leptonica.rs 139-146,     *)
(* 130-136).  boxCreate hands back null for a negative extent.             *)
(***************************************************************************)
RectInputs == {<<0, 0, 1, 1>>, <<3, 4, 5, 6>>, <<0, 0, 2, -5>>, <<0, 0, 5, 0>>}

\* Box::new has not been called
NoNew == [args |-> <<0, 0, 0, 0>>, ret |-> "none"]

NoRect == [st |-> "none", raw |-> "null", geom |-> <<0, 0, 0, 0>>]

boxCreate(x, y, w, h) == IF w < 0 \/ h < 0 THEN "null" ELSE "ptr"

Box_new(x, y, w, h) ==
    IF ~(w > 1 \/ h > 1)
    THEN [panic |-> TRUE, box |-> NoRect]
    ELSE [panic |-> FALSE,
          box |-> [st |-> "live", raw |-> boxCreate(x, y, w, h),
                   geom |-> IF boxCreate(x, y, w, h) = "null"
                            THEN <<0, 0, 0, 0>> ELSE <<x, y, w, h>>]]

BoxNew ==
    /\ thread = "running"
    /\ rect.st # "live"
    /\ \E g \in RectInputs :
        LET r == Box_new(g[1], g[2], g[3], g[4])
        IN  /\ rect' = IF r.panic THEN rect ELSE r.box
            /\ lastNew' = [args |-> g, ret |-> IF r.panic THEN "panic" ELSE "box"]
            /\ thread' = IF r.panic THEN "unwinding" ELSE "running"
    /\ UNCHANGED <<alive, calls, initRet, textRet, pix, boundPix, pixRead,
                   boxVars>>

RectDrop ==
    /\ thread # "aborted"
    /\ rect.st = "live"
    /\ rect' = [NoRect EXCEPT !.st = "dropped"]
    /\ UNCHANGED <<alive, calls, initRet, textRet, thread, pix, boundPix,
                   pixRead, lastNew, boxVars>>

\* set_image placed in impl TessBaseApiUnitialized: callable before initialize
set_image_before_init ==
    /\ thread = "running"
    /\ "Uninitialized" \in alive
    /\ pix = "live"
    /\ calls' = Append(calls, Call("SetImage2", 0))
    /\ alive' = (alive \ {"Uninitialized"}) \cup {"ImageSet"}
    /\ boundPix' = "live"
    /\ UNCHANGED <<initRet, textRet, thread, pix, pixRead, rect, lastNew,
                   boxVars>>

(***************************************************************************)
(* TessBaseApiInitialized::set_image (tesseract.rs 131-140).               *)
(***************************************************************************)
set_image ==
    /\ thread = "running"
    /\ "Initialized" \in alive
    /\ pix = "live"
    /\ calls' = Append(calls, Call("SetImage2", 0))
    /\ alive' = (alive \ {"Initialized"}) \cup {"ImageSet"}
    /\ boundPix' = "live"
    /\ UNCHANGED <<initRet, textRet, thread, pix, pixRead, rect, lastNew,
                   boxVars>>

(***************************************************************************)
(* The operations of TessBaseApiImageSet (tesseract.rs 143-199).           *)
(***************************************************************************)
RepeatableOps == {"SetRectangle", "GetUTF8Text", "GetComponentImages"}

OpsDone == Cardinality({i \in 1..Len(calls) : calls[i].op \in RepeatableOps})

\* the live Boxes a caller can pass by reference: the one made by Box::new
\* and the clones taken from the collection; raw and the geometry x(), y(),
\* w(), h() read from it
LiveBoxArgs ==
    (IF rect.st = "live" THEN {[raw |-> rect.raw, geom |-> rect.geom]} ELSE {})
    \cup {[raw |-> "ptr", geom |-> Box_xywh(heap, k)] :
              k \in {j \in 1..heap.n : clones[j] > 0}}

\* Reading through a null raw pointer is undefined: the process is killed,
\* or the accessors give some values and the call goes on.
set_rectangle ==
    /\ thread = "running"
    /\ "ImageSet" \in alive
    /\ OpsDone < MaxOps
    /\ \E b \in LiveBoxArgs :
        \/ /\ b.raw = "ptr"
           /\ calls' = Append(calls, Call("SetRectangle", b.geom))
           /\ thread' = thread
        \/ /\ b.raw = "null"
           /\ \/ /\ thread' = "aborted"
                 /\ calls' = calls
              \/ /\ \E g \in GeomSet : calls' = Append(calls, Call("SetRectangle", g))
                 /\ thread' = thread
    /\ UNCHANGED <<alive, initRet, textRet, pix, boundPix, pixRead, rect,
                   lastNew, boxVars>>

\* TessBaseAPIGetUTF8Text hands back valid UTF-8, bytes that are not UTF-8,
\* or null.  CStr::from_ptr(sptr).to_str() reads the buffer (ReadText in the
\* log); unwrap() panics on invalid bytes, before TessDeleteText; to_string()
\* copies the text, and TessDeleteText releases the buffer after the copy.
\* CStr::from_ptr on null is undefined: killed, or any of the two outcomes.
get_text ==
    /\ thread = "running"
    /\ "ImageSet" \in alive
    /\ OpsDone < MaxOps
    /\ \E bytes \in {"valid", "invalid", "null"} :
        LET c1 == calls \o <<Call("GetUTF8Text", bytes), Call("ReadText", bytes)>>
        IN  \/ /\ bytes \in {"valid", "null"}
               /\ calls' = Append(c1, Call("DeleteText", bytes))
               /\ textRet' = "string"
               /\ thread' = "running"
            \/ /\ bytes \in {"invalid", "null"}
               /\ calls' = c1
               /\ textRet' = "panic"
               /\ thread' = "unwinding"
            \/ /\ bytes = "null"
               /\ calls' = c1
               /\ textRet' = textRet
               /\ thread' = "aborted"
    /\ UNCHANGED <<alive, initRet, pix, boundPix, pixRead, rect, lastNew,
                   boxVars>>

\* get_component_images (tesseract.rs 166-178): wraps whatever the foreign
\* call hands back, null included.  The granularity and the text_only flag
\* go to the foreign call and change nothing the wrapper does.
\* One collection is followed at a time:
\* the next is asked for once the previous one and its clones are gone.
get_component_images(level, text_only) ==
    /\ thread = "running"
    /\ "ImageSet" \in alive
    /\ OpsDone < MaxOps
    /\ boxes.st \in {"none", "dropped"}
    /\ iter.kind = "none"
    /\ \A k \in 1..heap.n : clones[k] = 0
    /\ calls' = Append(calls, Call("GetComponentImages", 0))
    /\ \/ /\ boxes' = [st |-> "owned", raw |-> "null"]
          /\ heap' = NoHeap
       \/ \E gs \in BoxaResults :
            /\ boxes' = [st |-> "owned", raw |-> "ptr"]
            /\ heap' = NewBoxa(gs)
    /\ clones' = [k \in 1..heap'.n |-> 0]
    /\ ownYield' = <<>>
    /\ refYield' = <<>>
    /\ gets' = 0
    /\ lastGet' = NoGet
    /\ UNCHANGED <<alive, initRet, textRet, thread, pix, boundPix, pixRead,
                   rect, lastNew, iter>>

get_blocks == \E text_only \in BOOLEAN :
                 get_component_images("RIL_BLOCK", text_only)

get_paras == \E text_only \in BOOLEAN :
                 get_component_images("RIL_PARA", text_only)

get_textlines == \E text_only \in BOOLEAN :
                 get_component_images("RIL_TEXTLINE", text_only)

get_words == \E text_only \in BOOLEAN :
                 get_component_images("RIL_WORD", text_only)

get_symbols == \E text_only \in BOOLEAN :
                 get_component_images("RIL_SYMBOL", text_only)

(***************************************************************************)
(* Dropping the engine state value that is alive: the drop glue of its     *)
(* pointer field (tesseract.rs 42-57).  Runs at scope exit and while a     *)
(* panic unwinds.                                                          *)
(***************************************************************************)
DropState(t) ==
    /\ thread # "aborted"
    /\ t \in alive
    /\ alive' = alive \ {t}
    /\ calls' = DropGlue(t, calls)
    /\ UNCHANGED <<initRet, textRet, thread, pix, boundPix, pixRead, rect,
                   lastNew, boxVars>>

DropUninitialized == DropState("Uninitialized")

DropInitialized == DropState("Initialized")

DropImageSet == DropState("ImageSet")


(***************************************************************************)
(* The Boxes collection layer (leptonica.rs 166-265).                      *)
(***************************************************************************)
NoIter == [kind |-> "none", index |-> 0, count |-> 0, nones |-> 0]

\* the indexes a caller passes to Boxes::get: in range, one past the end,
\* and 2^31, 2^32 and 2^32 + 1, beyond the signed 32-bit range
IndexInputs == {Usize(0, i) : i \in 0..MaxLen}
               \cup {Usize(1, 0), Usize(2, 0), Usize(2, 1)}

Yielded(h, k) == [slot |-> k, geom |-> Box_xywh(h, k)]

\* a direct call of Boxes::get by the owner of the collection (a shared
\* borrow: also allowed while a borrowing iterator exists)
Get ==
    /\ thread = "running"
    /\ boxes.st = "owned"
    /\ gets < MaxGets
    /\ \E index \in IndexInputs :
        LET r == Boxes_get(heap, boxes.raw, index)
        IN  /\ heap' = r.heap
            /\ clones' = IF r.panic THEN clones
                         ELSE [clones EXCEPT ![r.slot] = @ + 1]
            /\ thread' = IF r.panic THEN "unwinding" ELSE "running"
            /\ lastGet' = [index |-> index, slot |-> r.slot]
    /\ gets' = gets + 1
    /\ UNCHANGED <<engineVars, boxes, iter, ownYield, refYield>>

\* len() in into_iter reads (*raw).n; through a null raw that is undefined:
\* the process is killed (-1 here), or some count is read
LenRead(raw, h) ==
    IF raw = "ptr" THEN {Boxes_len(h)} ELSE {-1} \cup (0..MaxLen)

\* into_iter stopping one slot short
NewIter_short(kind, count) ==
    [kind |-> kind, index |-> 0, count |-> count - 1, nones |-> 0]

\* the iterator into_iter builds around a count
NewIter(kind, count) ==
    [kind |-> kind, index |-> 0, count |-> count, nones |-> 0]

\* IntoIterator for Boxes (leptonica.rs 196-208): the collection moves into
\* the iterator
IntoIter ==
    /\ thread = "running"
    /\ boxes.st = "owned"
    /\ iter.kind = "none"
    /\ \E count \in LenRead(boxes.raw, heap) :
        IF count = -1
        THEN /\ thread' = "aborted"
             /\ UNCHANGED <<boxes, iter, ownYield>>
        ELSE /\ thread' = thread
             /\ iter' = NewIter("own", count)
             /\ boxes' = [boxes EXCEPT !.st = "moved"]
             /\ ownYield' = <<>>
    /\ UNCHANGED <<alive, calls, initRet, textRet, pix, boundPix, pixRead,
                   rect, lastNew, heap, clones, refYield, gets, lastGet>>

\* IntoIterator for &Boxes (leptonica.rs 232-244): the iterator borrows the
\* collection, which stays with its owner
RefIntoIter ==
    /\ thread = "running"
    /\ boxes.st = "owned"
    /\ iter.kind = "none"
    /\ gets < MaxGets
    /\ \E count \in LenRead(boxes.raw, heap) :
        IF count = -1
        THEN /\ thread' = "aborted"
             /\ UNCHANGED <<iter, refYield, gets>>
        ELSE /\ thread' = thread
             /\ iter' = NewIter("ref", count)
             /\ refYield' = <<>>
             /\ gets' = gets + 1
    /\ UNCHANGED <<alive, calls, initRet, textRet, pix, boundPix, pixRead,
                   rect, lastNew, boxes, heap, clones, ownYield, lastGet>>

\* next() destroying the collection as soon as the traversal is exhausted
IterNext_destroys(it, h, raw, ys) ==
    IF it.index >= it.count
    THEN [panic |-> FALSE, iter |-> [it EXCEPT !.nones = @ + 1],
          heap |-> boxaDestroy(h, raw), ys |-> ys, slot |-> 0]
    ELSE LET r == Boxes_get(h, raw, Usize(0, it.index))
         IN  IF r.panic
             THEN [panic |-> TRUE, iter |-> it, heap |-> r.heap, ys |-> ys,
                   slot |-> 0]
             ELSE [panic |-> FALSE, iter |-> [it EXCEPT !.index = @ + 1],
                   heap |-> r.heap,
                   ys |-> Append(ys, Yielded(r.heap, r.slot)),
                   slot |-> r.slot]

(***************************************************************************)
(* BoxesIterator::next and BoxaRefIterator::next (leptonica.rs 220-229,    *)
(* 255-264): None once index has reached count, else the clone of slot     *)
(* index.  it is the iterator, ys what it has yielded; the result is the   *)
(* iterator, the heap, the yielded items and the slot handed out           *)
(* (0: nothing was handed out) after the call.                             *)
(***************************************************************************)
IterNext(it, h, raw, ys) ==
    IF it.index >= it.count
    THEN [panic |-> FALSE, iter |-> [it EXCEPT !.nones = @ + 1],
          heap |-> h, ys |-> ys, slot |-> 0]
    ELSE LET r == Boxes_get(h, raw, Usize(0, it.index))
         IN  IF r.panic
             THEN [panic |-> TRUE, iter |-> it, heap |-> r.heap, ys |-> ys,
                   slot |-> 0]
             ELSE [panic |-> FALSE, iter |-> [it EXCEPT !.index = @ + 1],
                   heap |-> r.heap,
                   ys |-> Append(ys, Yielded(r.heap, r.slot)),
                   slot |-> r.slot]

BoxesIterator_next ==
    /\ thread = "running"
    /\ iter.kind = "own"
    /\ iter.nones < MaxNones
    /\ LET r == IterNext(iter, heap, boxes.raw, ownYield)
       IN  /\ iter' = r.iter
           /\ heap' = r.heap
           /\ ownYield' = r.ys
           /\ clones' = IF r.slot = 0 THEN clones
                        ELSE [clones EXCEPT ![r.slot] = @ + 1]
           /\ thread' = IF r.panic THEN "unwinding" ELSE "running"
    /\ UNCHANGED <<alive, calls, initRet, textRet, pix, boundPix, pixRead,
                   rect, lastNew, boxes, refYield, gets, lastGet>>

BoxaRefIterator_next ==
    /\ thread = "running"
    /\ iter.kind = "ref"
    /\ iter.nones < MaxNones
    /\ LET r == IterNext(iter, heap, boxes.raw, refYield)
       IN  /\ iter' = r.iter
           /\ heap' = r.heap
           /\ refYield' = r.ys
           /\ clones' = IF r.slot = 0 THEN clones
                        ELSE [clones EXCEPT ![r.slot] = @ + 1]
           /\ thread' = IF r.panic THEN "unwinding" ELSE "running"
    /\ UNCHANGED <<alive, calls, initRet, textRet, pix, boundPix, pixRead,
                   rect, lastNew, boxes, ownYield, gets, lastGet>>

(***************************************************************************)
(* Drops of the collection layer.  They run at scope exit and while a      *)
(* panic unwinds.  A BoxesIterator owns its Boxes, so its drop glue runs   *)
(* Drop for Boxes; a BoxaRefIterator holds a reference and has nothing to  *)
(* release; Boxes cannot be dropped while it is borrowed.                  *)
(***************************************************************************)
DropBoxesIterator ==
    /\ thread # "aborted"
    /\ iter.kind = "own"
    /\ heap' = Boxes_drop(heap, boxes.raw)
    /\ boxes' = [boxes EXCEPT !.st = "dropped"]
    /\ iter' = NoIter
    /\ UNCHANGED <<engineVars, clones, ownYield, refYield, gets, lastGet>>

DropRefIterator ==
    /\ thread # "aborted"
    /\ iter.kind = "ref"
    /\ iter' = NoIter
    /\ UNCHANGED <<engineVars, boxes, heap, clones, ownYield, refYield, gets,
                   lastGet>>

DropBoxes ==
    /\ thread # "aborted"
    /\ boxes.st = "owned"
    /\ iter.kind # "ref"
    /\ heap' = Boxes_drop(heap, boxes.raw)
    /\ boxes' = [boxes EXCEPT !.st = "dropped"]
    /\ UNCHANGED <<engineVars, clones, iter, ownYield, refYield, gets,
                   lastGet>>

DropClone ==
    /\ thread # "aborted"
    /\ \E k \in 1..heap.n :
        /\ clones[k] > 0
        /\ clones' = [clones EXCEPT ![k] = @ - 1]
        /\ heap' = Box_drop(heap, k)
    /\ UNCHANGED <<engineVars, boxes, iter, ownYield, refYield, gets,
                   lastGet>>

(***************************************************************************)
(* The specifications.  Spec is the engine lifecycle with the handles it   *)
(* is given and the collections it hands out; SpecBoxes follows one        *)
(* collection, obtained through an engine, through its reads, traversals   *)
(* and drops.                                                              *)
(***************************************************************************)
Init ==
    /\ alive = {}
    /\ calls = <<>>
    /\ initRet = "none"
    /\ textRet = "none"
    /\ thread = "running"
    /\ pix = "none"
    /\ boundPix = "none"
    /\ pixRead = "none"
    /\ rect = NoRect
    /\ lastNew = NoNew
    /\ boxes = [st |-> "none", raw |-> "null"]
    /\ heap = NoHeap
    /\ clones = <<>>
    /\ iter = NoIter
    /\ ownYield = <<>>
    /\ refYield = <<>>
    /\ gets = 0
    /\ lastGet = NoGet

Next ==
    \/ new
    \/ init
    \/ init_with_lang
    \/ init_with_datapath
    \/ init_with_datapath_and_lang
    \/ set_image
    \/ set_rectangle
    \/ get_text
    \/ get_blocks
    \/ get_paras
    \/ get_textlines
    \/ get_words
    \/ get_symbols
    \/ DropUninitialized
    \/ DropInitialized
    \/ DropImageSet
    \/ Pix_from_path
    \/ Pix_drop
    \/ BoxNew
    \/ RectDrop
    \/ DropBoxes

Spec == Init /\ [][Next]_vars

NextBoxes ==
    \/ new
    \/ init
    \/ Pix_from_path
    \/ set_image
    \/ get_blocks
    \/ Get
    \/ IntoIter
    \/ RefIntoIter
    \/ BoxesIterator_next
    \/ BoxaRefIterator_next
    \/ DropBoxesIterator
    \/ DropRefIterator
    \/ DropBoxes
    \/ DropClone
    \/ DropImageSet

SpecBoxes == Init /\ [][NextBoxes]_vars


(***************************************************************************)
(* Properties of the engine lifecycle, checked under Spec.                 *)
(***************************************************************************)
Created == Issued("Create")

InitFailed == \E i \in Idx("Init3") : calls[i].val # 0

\* C1: the foreign delete call runs on the session at most once in every
\* state, and exactly once as soon as the last state value referring to the
\* session has been dropped, whatever transitions were taken before.
C1_DeleteExactlyOnce ==
    /\ Count("Delete") <= 1
    /\ (Created /\ alive = {}) => Count("Delete") = 1

\* a session that went through init and set_image and was then dropped
C1_Witness ==
    /\ alive = {}
    /\ Issued("SetImage2")
    /\ Count("Delete") = 1

\* C2: the step that drops an Uninitialized engine adds the delete call and
\* no end-of-session call; the step that drops an Initialized or ImageSet
\* engine adds exactly the end-of-session call followed by the delete call,
\* each issued once on the session.
C2_TeardownByState ==
    [][ /\ (alive = {"Uninitialized"} /\ alive' = {}) =>
             /\ SubSeq(calls', 1, Len(calls)) = calls
             /\ calls'[Len(calls')].op = "Delete"
             /\ Count("Delete")' = 1
             /\ Count("End")' = 0
        /\ (alive \in {{"Initialized"}, {"ImageSet"}} /\ alive' = {}) =>
             /\ calls' = calls \o <<Call("End", 0), Call("Delete", 0)>>
             /\ Count("Delete")' = 1
             /\ Count("End")' = 1
      ]_vars

\* an ImageSet engine has been dropped
C2_Witness ==
    /\ alive = {}
    /\ Issued("SetImage2")
    /\ Issued("End")
    /\ calls[Len(calls)].op = "Delete"

\* C3: in the call log of the session, the bind-image call comes after an
\* initialize call that returned to its caller, every set_rectangle, get_text
\* and region accessor call comes after the bind-image call, and no image
\* has been bound while the engine is Uninitialized.
C3_OrderingRespected ==
    /\ \A i \in Idx("SetImage2") : \E j \in Idx("Init3") : j < i
    /\ Issued("SetImage2") => initRet = "value"
    /\ \A i \in 1..Len(calls) :
          calls[i].op \in RepeatableOps => \E j \in Idx("SetImage2") : j < i
    /\ "Uninitialized" \in alive => ~Issued("SetImage2")

\* operations of the ImageBound state have run on a bound engine, which is
\* still alive
C3_Witness ==
    /\ alive = {"ImageSet"}
    /\ Issued("SetImage2")
    /\ Issued("SetRectangle")
    /\ Issued("GetComponentImages")

\* C4: at most one state value referring to the session is alive, and while
\* one is alive no destructor has run on the session: the value a transition
\* consumed neither stays usable nor runs its teardown.
C4_OneLiveState ==
    /\ Cardinality(alive) <= 1
    /\ alive # {} => ~Issued("Delete") /\ ~Issued("End")

\* both transitions have been taken and the ImageSet value is the one alive
C4_Witness ==
    /\ alive = {"ImageSet"}
    /\ Issued("Init3")
    /\ Issued("SetImage2")

\* C5: when the foreign initialization call reported a nonzero status, the
\* initialize call gave its caller no value and no Initialized (or later)
\* state value exists for the session.
C5_NonzeroStatusGivesNoInitialized ==
    InitFailed => /\ initRet # "value"
                  /\ alive \cap {"Initialized", "ImageSet"} = {}

\* C6: when the foreign initialization call reported a nonzero status, the
\* initialize call returned an error result to its caller and the program
\* is still running.
C6_InitFailureIsReturned ==
    InitFailed => /\ initRet = "error"
                  /\ thread = "running"

\* C7: when the foreign initialization call reported a nonzero status, the
\* session has been released by the Uninitialized teardown (one delete call,
\* no end-of-session call) and no state value refers to it.
C7_FailedInitReleasesOnce ==
    InitFailed => /\ alive = {}
                  /\ Count("Delete") = 1
                  /\ ~Issued("End")

(***************************************************************************)
(* Properties of the collection layer, checked under SpecBoxes.            *)
(***************************************************************************)
IsPrefix(s, t) == Len(s) <= Len(t) /\ SubSeq(t, 1, Len(s)) = s

\* the clone of every slot, in ascending slot order
Expected == [k \in 1..heap.n |-> Yielded(heap, k)]

Geoms(ys) == [k \in 1..Len(ys) |-> ys[k].geom]

\* C8: for a collection of length N, each traversal has at every point
\* yielded the clones of the first slots in ascending order, has yielded
\* exactly the clones of all N slots once next() has answered None, however
\* often next() is called after that, and two full traversals, one
\* consuming and one borrowing, have yielded the same (x, y, w, h) tuples.
C8_TraversalsYieldAll ==
    boxes.raw = "ptr" =>
      /\ IsPrefix(ownYield, Expected)
      /\ IsPrefix(refYield, Expected)
      /\ (iter.kind = "own" /\ iter.nones > 0) => ownYield = Expected
      /\ (iter.kind = "ref" /\ iter.nones > 0) => refYield = Expected
      /\ (Len(ownYield) = heap.n /\ Len(refYield) = heap.n) =>
            Geoms(ownYield) = Geoms(refYield)

\* a borrowing and then a consuming traversal of two different rectangles,
\* both run to the end and asked again
C8_Witness ==
    /\ boxes.raw = "ptr"
    /\ heap.n = 2
    /\ heap.box[1].geom # heap.box[2].geom
    /\ Len(refYield) = 2
    /\ Len(ownYield) = 2
    /\ iter.kind = "own"
    /\ iter.nones = 2

SameSlots(h1, h2) ==
    /\ h1.n = h2.n
    /\ h1.frees = h2.frees
    /\ \A k \in 1..h1.n : h1.box[k].geom = h2.box[k].geom

\* C9: while a borrowing iterator exists, and in the step that drops it, the
\* collection keeps its owner, its length and its slots and is not
\* destroyed; while a consuming iterator exists the collection is not
\* destroyed, the step that drops the iterator destroys it, after any number
\* of next() calls, and it is never destroyed twice.
C9_BorrowKeepsConsumeDestroys ==
    /\ [](heap.frees <= 1)
    /\ [](((iter.kind = "ref" \/ iter.kind = "own") /\ boxes.raw = "ptr")
              => BoxaAlloc(heap))
    /\ [][ iter.kind = "ref" =>
              /\ boxes' = boxes
              /\ boxes.st = "owned"
              /\ SameSlots(heap, heap') ]_vars
    /\ [][ (iter.kind = "own" /\ iter'.kind = "none" /\ boxes.raw = "ptr") =>
              /\ boxes'.st = "dropped"
              /\ heap'.frees = 1 ]_vars

\* a borrowing traversal was made, and a consuming iterator was dropped
\* after one of two items
C9_Witness ==
    /\ boxes = [st |-> "dropped", raw |-> "ptr"]
    /\ heap.n = 2
    /\ heap.frees = 1
    /\ Len(refYield) = 2
    /\ Len(ownYield) = 1
    /\ iter.kind = "none"

\* C10: every box holds one reference per live Box wrapper over it plus the
\* one of the collection while the collection exists, so a box that a live
\* wrapper or the live collection refers to is never freed memory, whatever
\* was dropped before; the collection is destroyed at most once.
C10_SharesBalanced ==
    /\ heap.frees <= 1
    /\ boxes.st \in {"owned", "moved"} /\ boxes.raw = "ptr" => BoxaAlloc(heap)
    /\ \A k \in 1..heap.n :
          /\ heap.box[k].ref = clones[k] + (IF BoxaAlloc(heap) THEN 1 ELSE 0)
          /\ clones[k] > 0 => heap.box[k].ref > 0
          /\ BoxaAlloc(heap) => heap.box[k].ref > 0

\* the collection was dropped while a clone is alive, after another clone
\* had been dropped and its box freed
C10_Witness ==
    /\ boxes = [st |-> "dropped", raw |-> "ptr"]
    /\ heap.n = 2
    /\ \E j, k \in 1..2 :
          /\ clones[k] > 0
          /\ heap.box[k].ref = clones[k]
          /\ clones[j] = 0
          /\ heap.box[j].ref = 0
    /\ gets >= 2


(***************************************************************************)
(* Properties of the handles of leptonica.rs and of the results the       *)
(* engine hands out.                                                       *)
(***************************************************************************)
GetMade == lastGet.slot >= 0

\* the last index passed to Boxes::get lies in [0, len())
InRange == lastGet.index.q = 0 /\ lastGet.index.r < heap.n

\* C11: a direct Boxes::get with an index in [0, len()) has returned the
\* clone of exactly that slot, and with any other index of the index type,
\* those beyond the signed 32-bit range included, it has panicked and
\* returned no Box.
C11_GetChecksRange ==
    GetMade =>
        IF InRange THEN lastGet.slot = lastGet.index.r + 1
                   ELSE lastGet.slot = 0 /\ thread = "unwinding"


\* C12: whenever Box::new was called with w > 0 and h > 0 it returned a Box,
\* and as long as that Box is alive its accessors x(), y(), w(), h() give
\* the arguments of the call.
C12_NewReadsBack ==
    (lastNew.ret # "none" /\ lastNew.args[3] > 0 /\ lastNew.args[4] > 0) =>
        /\ lastNew.ret = "box"
        /\ rect.st = "live" => rect.raw = "ptr" /\ rect.geom = lastNew.args


\* C13: after a decode that handed back null, from_path has returned the
\* failure result and no Pix; a Pix handle exists (alive or since dropped)
\* only over a non-null raster handed back by the decode.
C13_FromPathChecksNull ==
    /\ pixRead = "null" => pix = "err"
    /\ pix \in {"live", "dropped"} => pixRead = "ptr"
    /\ pix = "err" => pixRead = "null"

\* a decode failed, and from_path returned the failure
C13_Witness ==
    /\ pixRead = "null"
    /\ pix = "err"
    /\ thread = "running"


\* the bytes the foreign engine handed the get_text calls
TextBytes == {calls[i].val : i \in Idx("GetUTF8Text")}

\* C14: when the foreign engine handed get_text bytes that are not valid
\* UTF-8, get_text returned an error result and the program is still
\* running; it returned a string only for bytes that are not invalid.
C14_EncodingFailureIsReturned ==
    /\ "invalid" \in TextBytes => textRet = "error" /\ thread = "running"
    /\ textRet = "string" => "invalid" \notin TextBytes


\* C15: no Boxes collection wraps a null pointer: none is owned by a caller
\* or an iterator (so len() and get() never run on one), and none has been
\* dropped; a null result of the foreign component-images call ends the
\* accessor with a panic instead.
C15_NullRegionsIsFatal ==
    boxes.st # "none" => boxes.raw = "ptr"

\* C16: every Box that Box::new returned wraps a non-null foreign rectangle
\* with w > 0 and h > 0, and a Box::new with w <= 0 or h <= 0 fails: it
\* produces no Box.
C16_NewBoxWellFormed ==
    /\ rect.st = "live" =>
          rect.raw = "ptr" /\ rect.geom[3] > 0 /\ rect.geom[4] > 0
    /\ (lastNew.ret # "none" /\ (lastNew.args[3] <= 0 \/ lastNew.args[4] <= 0)) =>
          lastNew.ret = "panic"

\* C17: the engine borrows the bound image and never touches it once it is
\* destroyed: the step that releases a Pix is its own drop and issues no
\* foreign call on the session, and once the Pix that set_image was given
\* has been dropped no set_rectangle, get_text or region accessor runs.
C17_BoundImageOutlivesUse ==
    [][/\ (pix = "live" /\ pix' = "dropped") => calls' = calls
       /\ boundPix = "dropped" => OpsDone' = OpsDone]_vars

\* C18: the foreign end-of-session call is issued on the session only after
\* a foreign initialization call on it returned status 0; it is never issued
\* on a session that was never started or whose initialization reported a
\* nonzero status.
C18_EndOnlyAfterSuccessfulInit ==
    \A i \in Idx("End") :
        \E j \in Idx("Init3") : j < i /\ calls[j].val = 0

\* C19: every text buffer get_text obtained from the engine is read into
\* the String first and then released by the foreign text-delete call,
\* exactly once, on every path out of get_text, the path of bytes that are
\* not valid UTF-8 included.
C19_TextBufferReleasedOnce ==
    \A i \in Idx("GetUTF8Text") :
        calls[i].val # "null" =>
            /\ i + 2 <= Len(calls)
            /\ calls[i + 1].op = "ReadText"
            /\ calls[i + 2].op = "DeleteText"
            /\ i + 3 <= Len(calls) => calls[i + 3].op \notin {"ReadText", "DeleteText"}

====
